---- MODULE Spec2Model ----
(***************************************************************************)
(* Model of jules-scratch/verification/verify_header.py.                   *)
(*                                                                         *)
(* The script is one linear sequence of calls into the Playwright sync API *)
(* wrapped in a `with sync_playwright()` block.  The model follows one     *)
(* process through the statements of the script, repeated for a bounded    *)
(* number of successive runs on the same file system.  The environment of  *)
(* a run is the reachability of the development server, the content it     *)
(* serves, and the step (if any) that raises: the import of line 1, the    *)
(* __enter__ or __exit__ of the with block, or a call of run().            *)
(***************************************************************************)
EXTENDS Integers, Sequences, FiniteSets

VARIABLES
    run,        \* number of the current execution of the script
    pc,         \* statement about to be executed
    serverUp,   \* is http://127.0.0.1:5173/ reachable during this run
    fault,      \* the step up to browser.close() that raises in this run
                \* ("none": no step)
    exitFault,  \* does sync_playwright().__exit__ raise in this run
    served,     \* page content currently served at the URL
    browser,    \* "none", "running" or "closed"
    closedBy,   \* "none", "close" (browser.close()) or "stop" (with-exit)
    nBrowsers,  \* browsers launched in this run
    nContexts,  \* browsing contexts created in this run
    nPages,     \* pages created in this run
    nNavs,      \* navigations completed in this run
    nShots,     \* screenshots written in this run
    context,    \* the `context` local of run(), NoContext before line 5
    page,       \* the `page` local of run(), NoPage before line 6
    raised,     \* an exception is propagating
    failedStep, \* the first step that raised, "none" if none did
    exitCode,   \* -1 while the process runs, then its exit status
    log,        \* library calls made so far in this run, in order
    fs,         \* file system: path -> file
    lastWriter, \* path -> run whose screenshot call last wrote it (0: none)
    fsAtStart,  \* history: fs when the current run started
    prev        \* history: outcome of the latest earlier successful run

vars == <<run, pc, serverUp, fault, exitFault, served, browser, closedBy,
          nBrowsers, nContexts, nPages, nNavs, nShots, context, page, raised,
          failedStep, exitCode, log, fs, lastWriter, fsAtStart, prev>>

\* ---------------------------------------------------------------- bounds
MaxRuns == 3

\* ------------------------------------------------------------- constants
Url == "http://127.0.0.1:5173/"

ViewportDefault == [width |-> 1280, height |-> 720]

Viewport == [width |-> 375, height |-> 667]

ScreenshotPathOther == "verification-1.png"

ScreenshotPath == "jules-scratch/verification/verification.png"

\* Playwright's default deviceScaleFactor; line 5 does not override it.
DeviceScaleFactor == 1

OtherPath == "verification-1.png"

Paths == {"jules-scratch/verification/verification.png", OtherPath}

Contents == {"A", "B"}

Blank == "about:blank"

Faults == {"none", "import", "sync_playwright", "launch", "new_context",
           "new_page", "goto", "screenshot", "close"}

NoFile == [width |-> 0, height |-> 0, pixels |-> "none", bytes |-> -1]

\* What an interrupted write can leave behind: an existing, empty file.
Truncated == [width |-> 0, height |-> 0, pixels |-> "none", bytes |-> 0]

NoContext == [id |-> 0, viewport |-> [width |-> 0, height |-> 0], dsf |-> 0]

NoPage == [ctx |-> 0, url |-> "none", from |-> "none", dom |-> "none"]

NoPrev == [fs |-> [p \in Paths |-> NoFile], from |-> "none"]

\* ------------------------------------------------------------ control flow
\* Statement order: the import, the with-enter, lines 4-9 of run(), then
\* the exit of the with block.
NextStepShotFirst(s) ==
    CASE s = "import"      -> "sync_playwright"
      [] s = "sync_playwright" -> "launch"
      [] s = "launch"      -> "new_context"
      [] s = "new_context" -> "new_page"
      [] s = "new_page"    -> "screenshot"
      [] s = "screenshot"  -> "goto"
      [] s = "goto"        -> "close"
      [] s = "close"       -> "exit"
      [] OTHER             -> "end"

NextStepNoClose(s) ==
    CASE s = "import"      -> "sync_playwright"
      [] s = "sync_playwright" -> "launch"
      [] s = "launch"      -> "new_context"
      [] s = "new_context" -> "new_page"
      [] s = "new_page"    -> "goto"
      [] s = "goto"        -> "screenshot"
      [] s = "screenshot"  -> "exit"
      [] OTHER             -> "end"

NextStep(s) ==
    CASE s = "import"      -> "sync_playwright"
      [] s = "sync_playwright" -> "launch"
      [] s = "launch"      -> "new_context"
      [] s = "new_context" -> "new_page"
      [] s = "new_page"    -> "goto"
      [] s = "goto"        -> "screenshot"
      [] s = "screenshot"  -> "close"
      [] s = "close"       -> "exit"
      [] OTHER             -> "end"

\* A step that raises: nothing in the script catches.  From inside run()
\* control leaves the with block through __exit__; from the import, from
\* __enter__ and from __exit__ itself it goes straight to the end of the
\* process.  The exception keeps propagating.
OnFailureSwallow(s) == [pc |-> NextStep(s), raised |-> FALSE]

OnFailure(s) ==
    [pc |-> IF s \in {"import", "sync_playwright", "exit"}
              THEN "end" ELSE "exit",
     raised |-> TRUE]

\* sync_playwright().__exit__ returns None: it never suppresses the
\* exception that left the with block.
ExitSuppresses == FALSE

\* Exit status of the interpreter: 1 on an uncaught exception, else 0.
ExitStatusZero(r) == 0

ExitStatus(r) == IF r THEN 1 ELSE 0

\* __exit__ of sync_playwright() stops the driver, which ends any browser
\* it launched that is still running.
StopPlaywright(b) == IF b = "running" THEN "stop" ELSE "none"

\* ----------------------------------------------------------- library calls
\* context.new_page(): the page lives in the existing context n.
BrowserNewPage(n) == [contexts |-> n + 1, ctx |-> n + 1]

NewPageIn(n) == [contexts |-> n, ctx |-> n]

\* page.goto() returns after the load event: the DOM is what was served.
LoadedContentNoWait(c) == {c, Blank}

LoadedContent(c) == {c}

\* page.screenshot(): the viewport, scaled by the device scale factor.
Render(dom, ctx) ==
    [width  |-> ctx.viewport.width * ctx.dsf,
     height |-> ctx.viewport.height * ctx.dsf,
     pixels |-> dom,
     bytes  |-> ctx.viewport.width * ctx.dsf * ctx.viewport.height * ctx.dsf]

Fails(s) ==
    \/ fault = s
    \/ (s = "goto" /\ ~serverUp)
    \/ (s = "exit" /\ exitFault)

\* Bookkeeping shared by every call: control moves on or the call raises.
Advance(s) ==
    /\ pc' = NextStep(s)
    /\ log' = Append(log, s)
    /\ UNCHANGED <<raised, failedStep>>

Raise(s) ==
    /\ pc' = OnFailure(s).pc
    /\ raised' = OnFailure(s).raised
    /\ failedStep' = IF failedStep = "none" THEN s ELSE failedStep
    /\ log' = Append(log, s)

Env == <<run, serverUp, fault, exitFault, served, exitCode, fsAtStart, prev>>

\* ------------------------------------------------------------------ actions
\* line 1: from playwright.sync_api import sync_playwright (not a call of
\* the library: nothing is logged).
ImportOk ==
    /\ pc = "import" /\ ~Fails("import")
    /\ pc' = NextStep("import")
    /\ UNCHANGED <<Env, browser, closedBy, nBrowsers, nContexts, nPages,
                   nNavs, nShots, context, page, raised, failedStep, log,
                   fs, lastWriter>>

ImportFail ==
    /\ pc = "import" /\ Fails("import")
    /\ pc' = OnFailure("import").pc
    /\ raised' = OnFailure("import").raised
    /\ failedStep' = "import"
    /\ UNCHANGED <<Env, browser, closedBy, nBrowsers, nContexts, nPages,
                   nNavs, nShots, context, page, log, fs, lastWriter>>

\* line 11: sync_playwright().__enter__()
EnterOk ==
    /\ pc = "sync_playwright" /\ ~Fails("sync_playwright")
    /\ Advance("sync_playwright")
    /\ UNCHANGED <<Env, browser, closedBy, nBrowsers, nContexts, nPages,
                   nNavs, nShots, context, page, fs, lastWriter>>

EnterFail ==
    /\ pc = "sync_playwright" /\ Fails("sync_playwright")
    /\ Raise("sync_playwright")
    /\ UNCHANGED <<Env, browser, closedBy, nBrowsers, nContexts, nPages,
                   nNavs, nShots, context, page, fs, lastWriter>>

\* line 4: browser = playwright.chromium.launch()
LaunchOk ==
    /\ pc = "launch" /\ ~Fails("launch")
    /\ browser' = "running"
    /\ nBrowsers' = nBrowsers + 1
    /\ Advance("launch")
    /\ UNCHANGED <<Env, closedBy, nContexts, nPages, nNavs, nShots, context,
                   page, fs, lastWriter>>

LaunchFail ==
    /\ pc = "launch" /\ Fails("launch")
    /\ Raise("launch")
    /\ UNCHANGED <<Env, browser, closedBy, nBrowsers, nContexts, nPages,
                   nNavs, nShots, context, page, fs, lastWriter>>

\* line 5: context = browser.new_context(viewport={...})
NewContextOk ==
    /\ pc = "new_context" /\ ~Fails("new_context") /\ browser = "running"
    /\ nContexts' = nContexts + 1
    /\ context' = [id |-> nContexts + 1, viewport |-> Viewport,
                   dsf |-> DeviceScaleFactor]
    /\ Advance("new_context")
    /\ UNCHANGED <<Env, browser, closedBy, nBrowsers, nPages, nNavs, nShots,
                   page, fs, lastWriter>>

NewContextFail ==
    /\ pc = "new_context" /\ (Fails("new_context") \/ browser # "running")
    /\ Raise("new_context")
    /\ UNCHANGED <<Env, browser, closedBy, nBrowsers, nContexts, nPages,
                   nNavs, nShots, context, page, fs, lastWriter>>

\* line 6: page = context.new_page()
NewPageOk ==
    /\ pc = "new_page" /\ ~Fails("new_page")
    /\ browser = "running" /\ context # NoContext
    /\ nContexts' = NewPageIn(nContexts).contexts
    /\ nPages' = nPages + 1
    /\ page' = [ctx |-> NewPageIn(nContexts).ctx, url |-> Blank,
                from |-> "none", dom |-> Blank]
    /\ Advance("new_page")
    /\ UNCHANGED <<Env, browser, closedBy, nBrowsers, nNavs, nShots, context,
                   fs, lastWriter>>

NewPageFail ==
    /\ pc = "new_page"
    /\ (Fails("new_page") \/ browser # "running" \/ context = NoContext)
    /\ Raise("new_page")
    /\ UNCHANGED <<Env, browser, closedBy, nBrowsers, nContexts, nPages,
                   nNavs, nShots, context, page, fs, lastWriter>>

\* line 7: page.goto("http://127.0.0.1:5173/")
GotoOk ==
    /\ pc = "goto" /\ ~Fails("goto")
    /\ browser = "running" /\ page # NoPage
    /\ \E d \in LoadedContent(served) :
          page' = [page EXCEPT !.url = Url, !.from = served, !.dom = d]
    /\ nNavs' = nNavs + 1
    /\ Advance("goto")
    /\ UNCHANGED <<Env, browser, closedBy, nBrowsers, nContexts, nPages,
                   nShots, context, fs, lastWriter>>

GotoFail ==
    /\ pc = "goto"
    /\ (Fails("goto") \/ browser # "running" \/ page = NoPage)
    /\ Raise("goto")
    /\ UNCHANGED <<Env, browser, closedBy, nBrowsers, nContexts, nPages,
                   nNavs, nShots, context, page, fs, lastWriter>>

\* line 8: page.screenshot(path="jules-scratch/verification/verification.png")
ScreenshotOk ==
    /\ pc = "screenshot" /\ ~Fails("screenshot")
    /\ browser = "running" /\ page # NoPage
    /\ fs' = [fs EXCEPT ![ScreenshotPath] = Render(page.dom, context)]
    /\ lastWriter' = [lastWriter EXCEPT ![ScreenshotPath] = run]
    /\ nShots' = nShots + 1
    /\ Advance("screenshot")
    /\ UNCHANGED <<Env, browser, closedBy, nBrowsers, nContexts, nPages,
                   nNavs, context, page>>

\* The call raises while capturing (nothing is written) or while writing
\* (the file may be left truncated).
ScreenshotFail ==
    /\ pc = "screenshot"
    /\ (Fails("screenshot") \/ browser # "running" \/ page = NoPage)
    /\ \/ UNCHANGED <<fs, lastWriter>>
       \/ /\ browser = "running" /\ page # NoPage
          /\ fs' = [fs EXCEPT ![ScreenshotPath] = Truncated]
          /\ lastWriter' = [lastWriter EXCEPT ![ScreenshotPath] = run]
    /\ Raise("screenshot")
    /\ UNCHANGED <<Env, browser, closedBy, nBrowsers, nContexts, nPages,
                   nNavs, nShots, context, page>>

\* line 9: browser.close()
CloseOk ==
    /\ pc = "close" /\ ~Fails("close") /\ browser = "running"
    /\ browser' = "closed"
    /\ closedBy' = "close"
    /\ Advance("close")
    /\ UNCHANGED <<Env, nBrowsers, nContexts, nPages, nNavs, nShots, context,
                   page, fs, lastWriter>>

CloseFail ==
    /\ pc = "close" /\ (Fails("close") \/ browser # "running")
    /\ Raise("close")
    /\ UNCHANGED <<Env, browser, closedBy, nBrowsers, nContexts, nPages,
                   nNavs, nShots, context, page, fs, lastWriter>>

\* lines 11-12: leaving the with block, normally or by exception.
WithExitOk ==
    /\ pc = "exit" /\ ~Fails("exit")
    /\ pc' = NextStep("exit")
    /\ log' = Append(log, "exit")
    /\ raised' = (raised /\ ~ExitSuppresses)
    /\ IF StopPlaywright(browser) = "stop"
         THEN browser' = "closed" /\ closedBy' = "stop"
         ELSE UNCHANGED <<browser, closedBy>>
    /\ UNCHANGED <<Env, nBrowsers, nContexts, nPages, nNavs, nShots, context,
                   page, failedStep, fs, lastWriter>>

\* __exit__ itself raises and the exception leaves the with statement.
\* Lines 11-12 do nothing else about the browser: as for every other call
\* that raises, the call may have had no effect (the browser is left as it
\* was) or may have stopped the driver before raising.
WithExitFail ==
    /\ pc = "exit" /\ Fails("exit")
    /\ Raise("exit")
    /\ \/ UNCHANGED <<browser, closedBy>>
       \/ /\ StopPlaywright(browser) = "stop"
          /\ browser' = "closed" /\ closedBy' = "stop"
    /\ UNCHANGED <<Env, nBrowsers, nContexts, nPages, nNavs, nShots, context,
                   page, fs, lastWriter>>

\* End of the module, or the traceback of an uncaught exception.
ProcessEnd ==
    /\ pc = "end"
    /\ pc' = "done"
    /\ exitCode' = ExitStatus(raised)
    /\ UNCHANGED <<run, serverUp, fault, exitFault, served, fsAtStart, prev,
                   browser,
                   closedBy, nBrowsers, nContexts, nPages, nNavs, nShots,
                   context, page, raised, failedStep, log, fs, lastWriter>>

\* Environment: the script is started again on the same file system.
Rerun ==
    /\ pc = "done" /\ run < MaxRuns
    /\ run' = run + 1
    /\ pc' = "import"
    /\ serverUp' \in BOOLEAN
    /\ fault' \in Faults
    /\ exitFault' \in BOOLEAN
    /\ browser' = "none" /\ closedBy' = "none"
    /\ nBrowsers' = 0 /\ nContexts' = 0 /\ nPages' = 0
    /\ nNavs' = 0 /\ nShots' = 0
    /\ context' = NoContext /\ page' = NoPage
    /\ raised' = FALSE /\ failedStep' = "none" /\ exitCode' = -1
    /\ log' = <<>>
    /\ fsAtStart' = fs
    /\ prev' = IF exitCode = 0 THEN [fs |-> fs, from |-> page.from] ELSE prev
    /\ UNCHANGED <<served, fs, lastWriter>>

\* Environment: the development server starts serving different content.
ContentChange ==
    /\ \E c \in Contents \ {served} : served' = c
    /\ UNCHANGED <<run, pc, serverUp, fault, exitFault, browser, closedBy,
                   nBrowsers,
                   nContexts, nPages, nNavs, nShots, context, page, raised,
                   failedStep, exitCode, log, fs, lastWriter, fsAtStart, prev>>

Init ==
    /\ run = 1
    /\ pc = "import"
    /\ serverUp \in BOOLEAN
    /\ fault \in Faults
    /\ exitFault \in BOOLEAN
    /\ served \in Contents
    /\ browser = "none" /\ closedBy = "none"
    /\ nBrowsers = 0 /\ nContexts = 0 /\ nPages = 0 /\ nNavs = 0 /\ nShots = 0
    /\ context = NoContext /\ page = NoPage
    /\ raised = FALSE /\ failedStep = "none" /\ exitCode = -1
    /\ log = <<>>
    /\ fs = [p \in Paths |-> NoFile]
    /\ lastWriter = [p \in Paths |-> 0]
    /\ fsAtStart = [p \in Paths |-> NoFile]
    /\ prev = NoPrev

Script ==
    \/ ImportOk \/ ImportFail
    \/ EnterOk \/ EnterFail
    \/ LaunchOk \/ LaunchFail
    \/ NewContextOk \/ NewContextFail
    \/ NewPageOk \/ NewPageFail
    \/ GotoOk \/ GotoFail
    \/ ScreenshotOk \/ ScreenshotFail
    \/ CloseOk \/ CloseFail
    \/ WithExitOk \/ WithExitFail
    \/ ProcessEnd

Next == Script \/ Rerun \/ ContentChange

Spec == Init /\ [][Next]_vars

\* A started process keeps executing: every call returns or raises.
FairSpec == Spec /\ WF_vars(Script)

\* ------------------------------------------------------------------ claims
Artifact == fs["jules-scratch/verification/verification.png"]

ArtifactWriter == lastWriter["jules-scratch/verification/verification.png"]

Logged == {log[i] : i \in 1..Len(log)}

\* The calls of run() made so far (the log without the with-enter and
\* the with-exit).
RunLog == SelectSeq(log, LAMBDA s : s \notin {"sync_playwright", "exit"})

RunCalls ==
    {"launch", "new_context", "new_page", "goto", "screenshot", "close"}

ClaimedOrder ==
    <<"launch", "new_context", "new_page", "goto", "screenshot", "close">>

BeforeScreenshot ==
    {"import", "sync_playwright", "launch", "new_context", "new_page", "goto"}

Succeeded == pc = "done" /\ exitCode = 0

\* C1: a run that starts with the server reachable and with no call due to
\* fail terminates with exit status 0, and at that point a non-empty file
\* written by this run's screenshot call exists at the fixed path.
C1_ReachableRunProducesArtifact ==
    \A r \in 1..MaxRuns :
        (run = r /\ pc = "import" /\ serverUp /\ fault = "none"
            /\ ~exitFault)
            ~> (/\ run = r /\ Succeeded
                /\ Artifact # NoFile /\ Artifact.bytes > 0
                /\ nShots = 1 /\ ArtifactWriter = r)

C1_Witness ==
    /\ Succeeded /\ serverUp /\ fault = "none" /\ ~exitFault
    /\ Artifact.bytes > 0 /\ ArtifactWriter = run

\* C2: with the server unreachable the run never gets past page.goto: the
\* screenshot call is never executed, this run writes nothing at the fixed
\* path, goto (if reached) is the call that raised, and the process never
\* ends with exit status 0.
C2_UnreachableServerFails ==
    ~serverUp =>
        /\ "screenshot" \notin Logged
        /\ pc \notin {"screenshot", "close"}
        /\ ArtifactWriter # run
        /\ exitCode # 0
        /\ ("goto" \in Logged => failedStep = "goto" /\ raised)
        /\ (pc = "done" => exitCode = 1 /\ failedStep \in BeforeScreenshot)

C2_Witness ==
    /\ ~serverUp /\ fault = "none" /\ pc = "done"
    /\ failedStep = "goto" /\ exitCode = 1

\* C3: once a step has raised, control is in the exit path with the
\* exception propagating and the process ends with exit status 1; when the
\* step is a call of run(), it is the last call of run() made; no call is
\* ever made twice.
C3_FailurePropagates ==
    /\ \A i, j \in 1..Len(log) : i < j => log[i] # log[j]
    /\ failedStep # "none" =>
          /\ raised
          /\ pc \in {"exit", "end", "done"}
          /\ (pc = "done" => exitCode = 1)
    /\ failedStep \in RunCalls =>
          /\ RunLog # <<>> /\ RunLog[Len(RunLog)] = failedStep
          /\ \A i \in 1..Len(log) : log[i] = failedStep =>
                \A j \in (i+1)..Len(log) : log[j] = "exit"

C3_Witness ==
    /\ pc = "done" /\ exitCode = 1
    /\ failedStep = "screenshot" /\ "close" \notin Logged

\* C4: the calls of run() are executed in the order launch, new_context,
\* new_page, goto, screenshot, close, each only after all earlier ones
\* succeeded; the screenshot is taken only after a completed navigation.
C4_FixedOrder ==
    /\ Len(RunLog) <= Len(ClaimedOrder)
    /\ \A i \in 1..Len(RunLog) :
          /\ RunLog[i] = ClaimedOrder[i]
          /\ (i < Len(RunLog) => RunLog[i] # failedStep)
    /\ ("screenshot" \in Logged => nNavs = 1 /\ page.url = Url)

C4_Witness ==
    /\ RunLog = ClaimedOrder /\ failedStep = "none" /\ nShots = 1

\* C5: the browser exists only after launch, the first call of run(); a run
\* in which every call succeeds ends with the browser closed by
\* browser.close(), executed after the screenshot; nothing is done with the
\* browser after it has been closed.
C5_ScopedBrowser ==
    /\ (browser # "none" => Len(RunLog) >= 1 /\ RunLog[1] = "launch")
    /\ (Succeeded =>
          /\ browser = "closed" /\ closedBy = "close"
          /\ \E i, j \in 1..Len(log) :
                i < j /\ log[i] = "screenshot" /\ log[j] = "close")
    /\ (browser = "closed" => pc \in {"exit", "end", "done"})
    /\ \A i, j \in 1..Len(log) :
          (i < j /\ log[i] = "close") =>
              log[j] \notin {"new_context", "new_page", "goto", "screenshot"}

C5_Witness ==
    /\ Succeeded /\ browser = "closed" /\ closedBy = "close"

\* C6: a run creates at most one browser, one context and one page, and
\* navigates and captures at most once; a successful run does each exactly
\* once, the page living in the one context.
C6_SingleContext ==
    /\ nBrowsers <= 1 /\ nContexts <= 1 /\ nPages <= 1
    /\ nNavs <= 1 /\ nShots <= 1
    /\ (page # NoPage => page.ctx = context.id)
    /\ (Succeeded =>
          nBrowsers = 1 /\ nContexts = 1 /\ nPages = 1
              /\ nNavs = 1 /\ nShots = 1)

C6_Witness ==
    /\ Succeeded /\ nContexts = 1 /\ nNavs = 1 /\ nShots = 1

\* C7: the context's viewport is 375 by 667 whenever the context exists, the
\* device pixel ratio is the default 1, and a captured image is 375*r by
\* 667*r pixels.
C7_ViewportAndImageSize ==
    /\ (context # NoContext =>
          /\ context.viewport.width = 375 /\ context.viewport.height = 667
          /\ context.dsf = 1)
    /\ (nShots = 1 =>
          /\ Artifact.width = 375 * context.dsf
          /\ Artifact.height = 667 * context.dsf)

C7_Witness ==
    /\ nShots = 1 /\ browser = "closed"
    /\ Artifact.width = 375 /\ Artifact.height = 667

\* C8: a successful run that loaded the same served content as the latest
\* earlier successful run leaves the file system exactly as that run left
\* it: the same image at the fixed path and no further file.
C8_RepeatRunSameScreenshot ==
    (Succeeded /\ prev # NoPrev /\ prev.from = page.from) => fs = prev.fs

C8_Witness ==
    /\ Succeeded /\ run >= 2 /\ prev # NoPrev /\ prev.from = page.from
    /\ ArtifactWriter = run /\ fs = prev.fs

\* C10: when the call that raised precedes page.screenshot, the file system
\* is as it was when the run started, so an earlier screenshot is intact.
C10_FailedRunLeavesFiles ==
    failedStep \in BeforeScreenshot => fs = fsAtStart /\ ArtifactWriter # run

C10_Witness ==
    /\ pc = "done" /\ exitCode = 1 /\ failedStep = "goto" /\ run >= 2
    /\ Artifact.bytes > 0 /\ fs = fsAtStart

====
